---- MODULE Spec2Model ----
(***************************************************************************)
(* Model of desafio_dio.py: an in-memory bank with a person registry, a   *)
(* list of accounts, and the Deposito / Saque transactions that the       *)
(* console loop of main() applies to an account.                          *)
(*                                                                         *)
(* Amounts are Python floats, IEEE-754 binary64.  A float is modelled as  *)
(* a record [cls, sgn, hi, lo, exp]: cls = "fin" is the number            *)
(* sgn * (hi * 2^28 + lo) * 2^exp, and cls = "nan" / "inf" / "ninf" are   *)
(* the special values that float(input()) also produces.                  *)
(* Fin(n) is the float that float() makes of a text of n centavos.        *)
(* Comparison and arithmetic follow IEEE-754 as Python applies them:      *)
(* sums and differences are rounded to the nearest float, every ordered   *)
(* comparison with NaN is False, NaN poisons sums.                        *)
(*                                                                         *)
(* ultima records the last pass through the menu loop: the option, the    *)
(* exit taken or the transaction applied, and the dict that               *)
(* executar_transacao returned.  auditoria counts, per account, what was  *)
(* reported as successful.  Spec lets one CPF be registered and feeds the *)
(* transactions many amounts; SpecBanco lets two CPFs be registered and   *)
(* feeds the transactions few amounts.                                    *)
(***************************************************************************)
EXTENDS Integers, Sequences, FiniteSets, TLC

VARIABLES usuarios, contas, numero_conta_seq, ultima, auditoria

vars == <<usuarios, contas, numero_conta_seq, ultima, auditoria>>

(***************************************************************************)
(* Bounds of the model.                                                    *)
(***************************************************************************)
\* the number of accounts the bank may hold
MaxContas == 2
\* the number of persons, accounts and history entries the bank may hold in all
MaxTamanho == 6

(***************************************************************************)
(* Program constants.                                                      *)
(***************************************************************************)
LIMITE_SAQUES == 3
AGENCIA == "0001"
LimiteSaquesPadrao == 3

(***************************************************************************)
(* Natural numbers of any size, for the conversions between floats and    *)
(* decimal texts: a sequence of limbs in base 16384, the least            *)
(* significant limb first and no zero limb at the end; <<>> is 0.          *)
(***************************************************************************)
Base == 16384

RECURSIVE BNorm(_)
BNorm(a) == IF a # <<>> /\ a[Len(a)] = 0 THEN BNorm(SubSeq(a, 1, Len(a) - 1)) ELSE a

RECURSIVE BFromInt(_)
BFromInt(n) == IF n = 0 THEN <<>> ELSE <<n % Base>> \o BFromInt(n \div Base)

\* the number of binary digits of n, for 0 <= n < 16, 2^8, 2^16 and 2^31
BitLen4(n) == IF n >= 8 THEN 4 ELSE IF n >= 4 THEN 3 ELSE IF n >= 2 THEN 2 ELSE n
BitLen8(n) == IF n >= 16 THEN 4 + BitLen4(n \div 16) ELSE BitLen4(n)
BitLen16(n) == IF n >= 256 THEN 8 + BitLen8(n \div 256) ELSE BitLen8(n)
BitLenInt(n) == IF n >= 65536 THEN 16 + BitLen16(n \div 65536) ELSE BitLen16(n)

\* the number of binary digits of a
BBitLen(a) == IF a = <<>> THEN 0 ELSE 14 * (Len(a) - 1) + BitLenInt(a[Len(a)])

BIsOdd(a) == a # <<>> /\ a[1] % 2 = 1

\* whether the binary digit of weight 2^i of a is 1
BBit(a, i) ==
    LET k == (i \div 14) + 1
    IN  k <= Len(a) /\ (a[k] \div 2^(i % 14)) % 2 = 1

\* whether a binary digit of a of weight below 2^i is 1
BBelow(a, i) ==
    LET k == (i \div 14) + 1
    IN  \/ \E j \in 1 .. (k - 1) : j <= Len(a) /\ a[j] # 0
        \/ k <= Len(a) /\ a[k] % 2^(i % 14) # 0

RECURSIVE BAddC(_, _, _)
BAddC(a, b, c) ==
    IF a = <<>> /\ b = <<>> THEN IF c = 0 THEN <<>> ELSE <<c>>
    ELSE LET x == IF a = <<>> THEN 0 ELSE Head(a)
             y == IF b = <<>> THEN 0 ELSE Head(b)
             s == x + y + c
         IN  <<s % Base>> \o BAddC(IF a = <<>> THEN <<>> ELSE Tail(a),
                                   IF b = <<>> THEN <<>> ELSE Tail(b),
                                   s \div Base)

\* a + b
BAdd(a, b) == BAddC(a, b, 0)

RECURSIVE BMulC(_, _, _)
BMulC(a, k, c) ==
    IF a = <<>> THEN IF c = 0 THEN <<>> ELSE <<c>>
    ELSE LET p == Head(a) * k + c
         IN  <<p % Base>> \o BMulC(Tail(a), k, p \div Base)

\* a * k, for 0 <= k <= 65536
BMulSmall(a, k) == BNorm(BMulC(a, k, 0))

\* quotient (as many limbs as a has) and remainder of r0 * Base^Len(a) + a by k,
\* for 0 <= r0 < k <= 65536: the more significant half of the limbs is divided
\* first and its remainder, once known, is carried into the other half
RECURSIVE BDivIn(_, _, _)
BDivIn(a, k, r0) ==
    IF a = <<>> THEN [q |-> <<>>, r |-> r0]
    ELSE IF Len(a) = 1
    THEN [q |-> <<(r0 * Base + a[1]) \div k>>, r |-> (r0 * Base + a[1]) % k]
    ELSE LET h == Len(a) \div 2
             alto == BDivIn(SubSeq(a, h + 1, Len(a)), k, r0)
         IN  IF alto.r >= k THEN alto
             ELSE LET baixo == BDivIn(SubSeq(a, 1, h), k, alto.r)
                  IN  [q |-> baixo.q \o alto.q, r |-> baixo.r]

\* quotient (limbs, zero limbs at the end not removed) and remainder of a by k,
\* for 0 < k <= 65536
BDivRec(a, k) == BDivIn(a, k, 0)

\* a * 2^n
BShl(a, n) ==
    IF a = <<>> THEN <<>>
    ELSE [i \in 1 .. (n \div 14) |-> 0] \o BMulC(a, 2^(n % 14), 0)

\* a \div 2^n
BShr(a, n) ==
    IF n \div 14 >= Len(a) THEN <<>>
    ELSE BNorm(BDivRec(SubSeq(a, (n \div 14) + 1, Len(a)), 2^(n % 14)).q)

\* q or q + 1, for a quotient q by a power of 2: meio says that the first binary
\* digit dropped is 1 and resto that a later one is; a tie goes to the even number
BAoMaisProximo(q, meio, resto) ==
    IF meio /\ (resto \/ BIsOdd(q)) THEN BAdd(q, <<1>>) ELSE q

\* a / 2^n rounded to the nearest natural number, a tie to the even one
BShrRound(a, n) ==
    IF n = 0 THEN a
    ELSE BAoMaisProximo(BShr(a, n), BBit(a, n - 1), BBelow(a, n - 1))

\* the four decimal digits of n, for 0 <= n < 10000
Digitos4(n) ==
    ToString(n \div 1000) \o ToString((n \div 100) % 10)
        \o ToString((n \div 10) % 10) \o ToString(n % 10)

\* a written in decimal, four digits at a time, "" for 0; d is the quotient and the
\* remainder of a by 10^4
RECURSIVE BToDecCurto(_)
BToDecCurtoDe(d) == BToDecCurto(BNorm(d.q)) \o Digitos4(d.r)

BToDecCurto(a) ==
    IF a = <<>> THEN ""
    ELSE IF Len(a) <= 2 THEN ToString(a[1] + (IF Len(a) = 2 THEN a[2] * Base ELSE 0))
    ELSE BToDecCurtoDe(BDivRec(a, 10000))

\* a written in decimal, sixteen digits at a time, "" for 0: a number of five limbs
\* or more is 10^16 at least; d1 .. d4 are the successive quotients by 10^4, with
\* their remainders, and r1 .. r3 the remainders already taken
RECURSIVE BToDec(_)
BToDecGrupo4(r1, r2, r3, d4) ==
    BToDec(BNorm(d4.q)) \o Digitos4(d4.r) \o Digitos4(r3) \o Digitos4(r2) \o Digitos4(r1)

BToDecGrupo3(r1, r2, d3) == BToDecGrupo4(r1, r2, d3.r, BDivRec(BNorm(d3.q), 10000))

BToDecGrupo2(r1, d2) == BToDecGrupo3(r1, d2.r, BDivRec(BNorm(d2.q), 10000))

BToDecGrupo1(d1) == BToDecGrupo2(d1.r, BDivRec(BNorm(d1.q), 10000))

BToDec(a) == IF Len(a) <= 4 THEN BToDecCurto(a) ELSE BToDecGrupo1(BDivRec(a, 10000))

(***************************************************************************)
(* Floats: Python float is IEEE-754 binary64.  A float is a record        *)
(* [cls, sgn, hi, lo, exp].  cls = "fin" is the finite number             *)
(* sgn * (hi * 2^28 + lo) * 2^exp, with sgn 1 or -1 and 0 <= lo < 2^28:   *)
(* a normal number has a significand hi * 2^28 + lo of exactly 53 binary  *)
(* digits and exp in -1074 .. 971, a subnormal number has exp = -1074 and *)
(* a shorter significand, and 0.0 / -0.0 have hi = lo = 0 and             *)
(* exp = -1074.  cls = "nan", "inf", "ninf" are nan, inf and -inf.  Sums  *)
(* and differences are rounded to the nearest float, a tie to the even    *)
(* significand, and overflow to inf, as the hardware does for the + and   *)
(* - of lines 37 and 61.                                                   *)
(***************************************************************************)
Precisao == 53
ExpMin == 0 - 1074
ExpTopo == 1024
Meio == 268435456

NaN == [cls |-> "nan", sgn |-> 1, hi |-> 0, lo |-> 0, exp |-> 0]
PosInf == [cls |-> "inf", sgn |-> 1, hi |-> 0, lo |-> 0, exp |-> 0]
NegInf == [cls |-> "ninf", sgn |-> 0 - 1, hi |-> 0, lo |-> 0, exp |-> 0]

\* 0.0, the saldo of Conta.__init__
Zero == [cls |-> "fin", sgn |-> 1, hi |-> 0, lo |-> 0, exp |-> ExpMin]

Infinito(sgn) == IF sgn = 1 THEN PosInf ELSE NegInf

\* the exponent of the float for a number whose first binary digit weighs 2^(e - 1)
ExpAlvo(e) == IF e - Precisao > ExpMin THEN e - Precisao ELSE ExpMin

\* the limbs of the significand hi * 2^28 + lo
BDeSig(hi, lo) == BNorm(<<lo % Base, lo \div Base, hi % Base, hi \div Base>>)

\* the finite float of sign sgn, significand a (limbs, at most 53 binary digits)
\* and exponent exp
FinDe(sgn, a, exp) ==
    LET l(i) == IF i <= Len(a) THEN a[i] ELSE 0
    IN  [cls |-> "fin", sgn |-> sgn,
         hi |-> l(3) + l(4) * Base, lo |-> l(1) + l(2) * Base,
         exp |-> IF a = <<>> THEN ExpMin ELSE exp]

\* sgn * q * 2^te as a float, inf when it is 2^1024 or more, for q of at most 53
\* binary digits
Limitar(sgn, q, te) ==
    IF BBitLen(q) + te > ExpTopo THEN Infinito(sgn) ELSE FinDe(sgn, q, te)

\* the same for q of at most 53 binary digits or q = 2^53, which rounding up gives
Acertar(sgn, q, te) ==
    IF BBitLen(q) = Precisao + 1 THEN Limitar(sgn, BShr(q, 1), te + 1)
    ELSE Limitar(sgn, q, te)

\* the float nearest to sgn * man * 2^exp, whose exponent is te
ArredondarEm(sgn, man, exp, te) ==
    Acertar(sgn,
            IF te <= exp THEN BShl(man, exp - te) ELSE BShrRound(man, te - exp),
            te)

\* the float nearest to sgn * man * 2^exp, for any natural man (limbs) and integer exp
Arredondar(sgn, man, exp) ==
    IF man = <<>> THEN FinDe(sgn, <<>>, ExpMin)
    ELSE ArredondarEm(sgn, man, exp, ExpAlvo(BBitLen(man) + exp))

\* the float nearest to sgn * (2 * q + 1 / 2) * 2^-65 when d.r # 0 and to
\* sgn * 2 * q * 2^-65 when d.r = 0, for the quotient q and the remainder d.r of
\* a * 2^64 by 100: the float nearest to sgn * a / 100
FinQuociente(sgn, d) ==
    Arredondar(sgn,
               BAdd(BShl(BNorm(d.q), 1), IF d.r # 0 THEN <<1>> ELSE <<>>),
               0 - 65)

\* float(text) for a text that writes n centavos in decimal, as "0.70" for 70 or
\* "-100" for -10000: the float nearest to n / 100
Fin(n) ==
    FinQuociente(IF n < 0 THEN 0 - 1 ELSE 1,
                 BDivRec(BShl(BFromInt(IF n < 0 THEN 0 - n ELSE n), 64), 100))

IsNaN(x) == x.cls = "nan"

IsZero(x) == x.cls = "fin" /\ x.hi = 0 /\ x.lo = 0

\* -1, 0, 1 as |x| < |y|, |x| = |y|, |x| > |y|, for finite x and y
CmpMag(x, y) ==
    IF x.exp # y.exp THEN IF x.exp < y.exp THEN 0 - 1 ELSE 1
    ELSE IF x.hi # y.hi THEN IF x.hi < y.hi THEN 0 - 1 ELSE 1
    ELSE IF x.lo # y.lo THEN IF x.lo < y.lo THEN 0 - 1 ELSE 1
    ELSE 0

\* -1, 0, 1 as x < y, x == y, x > y, for finite x and y
CmpFin(x, y) ==
    IF IsZero(x) /\ IsZero(y) THEN 0
    ELSE IF IsZero(x) THEN 0 - y.sgn
    ELSE IF IsZero(y) THEN x.sgn
    ELSE IF x.sgn # y.sgn THEN x.sgn
    ELSE x.sgn * CmpMag(x, y)

\* x > y on floats
FGt(x, y) ==
    /\ ~IsNaN(x)
    /\ ~IsNaN(y)
    /\ \/ x.cls = "inf" /\ y.cls # "inf"
       \/ y.cls = "ninf" /\ x.cls # "ninf"
       \/ x.cls = "fin" /\ y.cls = "fin" /\ CmpFin(x, y) = 1

\* x == y on floats
FEq(x, y) ==
    /\ ~IsNaN(x)
    /\ ~IsNaN(y)
    /\ x.cls = y.cls
    /\ x.cls = "fin" => CmpFin(x, y) = 0

\* x >= y, x <= y, x < y on floats
FGe(x, y) == FGt(x, y) \/ FEq(x, y)
FLe(x, y) == FGe(y, x)
FLt(x, y) == FGt(y, x)

\* (hi * 2^28 + lo) * 2^k as [hi, lo], for a result below 2^57
Shl2(hi, lo, k) ==
    IF k < 28
    THEN [hi |-> hi * 2^k + lo \div 2^(28 - k), lo |-> (lo % 2^(28 - k)) * 2^k]
    ELSE [hi |-> lo * 2^(k - 28), lo |-> 0]

\* (hi * 2^28 + lo) \div 2^d as [hi, lo], its last binary digit set to 1 when a
\* digit 1 was shifted out (the sticky digit), for d >= 1 and hi < 2^25
ShrJam(hi, lo, d) ==
    LET q == IF d < 28
             THEN [hi |-> hi \div 2^d, lo |-> lo \div 2^d + (hi % 2^d) * 2^(28 - d),
                   perdeu |-> lo % 2^d # 0]
             ELSE IF d <= 53
             THEN [hi |-> 0, lo |-> hi \div 2^(d - 28),
                   perdeu |-> hi % 2^(d - 28) # 0 \/ lo # 0]
             ELSE [hi |-> 0, lo |-> 0, perdeu |-> hi # 0 \/ lo # 0]
    IN  [hi |-> q.hi, lo |-> IF q.perdeu /\ q.lo % 2 = 0 THEN q.lo + 1 ELSE q.lo]

\* the number of binary digits of hi * 2^28 + lo
BitLen2(hi, lo) == IF hi # 0 THEN 28 + BitLenInt(hi) ELSE BitLenInt(lo)

\* sgn * (hi * 2^28 + lo) * 2^exp as a float, inf when it is 2^1024 or more, for a
\* significand of at most 53 binary digits
Montar(sgn, hi, lo, exp) ==
    IF BitLen2(hi, lo) + exp > ExpTopo THEN Infinito(sgn)
    ELSE [cls |-> "fin", sgn |-> sgn, hi |-> hi, lo |-> lo,
          exp |-> IF hi = 0 /\ lo = 0 THEN ExpMin ELSE exp]

\* the same for a significand m = [hi, lo] of at most 53 binary digits or
\* m = 2^53, which rounding up gives
MontarDe(sgn, m, exp) ==
    IF m.hi = 2^25 THEN Montar(sgn, 2^24, 0, exp + 1) ELSE Montar(sgn, m.hi, m.lo, exp)

\* qhi * 2^28 + qlo, or one more, as [hi, lo]: the quotient of a division by a power
\* of 2 that left resto, rounded to the nearest number, a tie (resto = metade, half
\* the divisor) to the even one
AoMaisProximo(qhi, qlo, resto, metade) ==
    IF resto > metade \/ (resto = metade /\ qlo % 2 = 1)
    THEN IF qlo + 1 = Meio THEN [hi |-> qhi + 1, lo |-> 0] ELSE [hi |-> qhi, lo |-> qlo + 1]
    ELSE [hi |-> qhi, lo |-> qlo]

\* (hi * 2^28 + lo) / 2^s rounded to the nearest natural number, a tie to the even
\* one, as [hi, lo], for 1 <= s < 28
ShrPerto(hi, lo, s) ==
    AoMaisProximo(hi \div 2^s, lo \div 2^s + (hi % 2^s) * 2^(28 - s), lo % 2^s, 2^(s - 1))

\* the float nearest to sgn * (hi * 2^28 + lo) * 2^exp, whose exponent is te
Arredondar2Em(sgn, hi, lo, exp, te) ==
    MontarDe(sgn,
             IF te <= exp THEN Shl2(hi, lo, exp - te) ELSE ShrPerto(hi, lo, te - exp),
             te)

\* the float nearest to sgn * (hi * 2^28 + lo) * 2^exp, for 0 < hi * 2^28 + lo < 2^57
\* and exp >= -1077
Arredondar2(sgn, hi, lo, exp) ==
    Arredondar2Em(sgn, hi, lo, exp, ExpAlvo(BitLen2(hi, lo) + exp))

\* the float of the sum sgn * (hi * 2^28 + lo) * 2^(g.exp - 3), of the sign of g
Fechar(g, hi, lo) ==
    IF hi = 0 /\ lo = 0 THEN Zero ELSE Arredondar2(g.sgn, hi, lo, g.exp - 3)

\* shi * 2^28 + slo with 0 <= lo < 2^28: the carry or the borrow goes to hi
Transportar(g, shi, slo) ==
    Fechar(g,
           IF slo < 0 THEN shi - 1 ELSE IF slo >= Meio THEN shi + 1 ELSE shi,
           (slo + Meio) % Meio)

\* a + s * b, for a, b as [hi, lo] and s = 1 or -1
SomarAlinhados(g, a, b, s) == Transportar(g, a.hi + s * b.hi, a.lo + s * b.lo)

\* the significand of p in units of 2^(g.exp - 3), for d = g.exp - p.exp: three more
\* binary digits than g has, the last one sticky
Alinhar(p, d) ==
    IF d <= 3 THEN Shl2(p.hi, p.lo, 3 - d) ELSE ShrJam(p.hi, p.lo, d - 3)

\* g + p for finite nonzero g and p with |g| >= |p|
SomarOrdenados(g, p) ==
    SomarAlinhados(g, Shl2(g.hi, g.lo, 3), Alinhar(p, g.exp - p.exp),
                   IF g.sgn = p.sgn THEN 1 ELSE 0 - 1)

\* x + y for finite x and y: the operand of smaller magnitude is aligned to the other
\* with three more binary digits, the last one sticky, and the sum is rounded
FAddFin(x, y) ==
    IF IsZero(x) /\ IsZero(y)
    THEN [x EXCEPT !.sgn = IF x.sgn = 0 - 1 /\ y.sgn = 0 - 1 THEN 0 - 1 ELSE 1]
    ELSE IF IsZero(x) THEN y
    ELSE IF IsZero(y) THEN x
    ELSE IF CmpMag(x, y) < 0 THEN SomarOrdenados(y, x)
    ELSE SomarOrdenados(x, y)

\* x + y on floats
FAdd(x, y) ==
    IF IsNaN(x) \/ IsNaN(y) THEN NaN
    ELSE IF x.cls = "fin" /\ y.cls = "fin" THEN FAddFin(x, y)
    ELSE IF x.cls = "fin" THEN y
    ELSE IF y.cls = "fin" THEN x
    ELSE IF x.cls = y.cls THEN x
    ELSE NaN

FNeg(x) ==
    CASE x.cls = "fin" -> [x EXCEPT !.sgn = 0 - x.sgn]
      [] x.cls = "inf" -> NegInf
      [] x.cls = "ninf" -> PosInf
      [] OTHER -> NaN

\* x - y on floats
FSub(x, y) == FAdd(x, FNeg(y))

\* Conta.__init__: limite: float = 500.0
LimitePadrao == Fin(50000)

\* m * 2^exp rounded to the nearest natural number, a tie to the even one
Escalar(m, exp) == IF exp >= 0 THEN BShl(m, exp) ELSE BShrRound(m, 0 - exp)

\* |x| * 100 rounded to the nearest natural number, a tie to the even one
Centavos(x) == Escalar(BMulSmall(BDeSig(x.hi, x.lo), 100), x.exp)

\* the sign, the decimal text of the whole part ("0" when it is empty), a point
\* and the two digits of r
Fmt2Partes(sgn, inteiro, r) ==
    (IF sgn = 0 - 1 THEN "-" ELSE "") \o (IF inteiro = "" THEN "0" ELSE inteiro)
        \o "." \o ToString(r \div 10) \o ToString(r % 10)

\* the text of a number of the sign sgn whose centavos divided by 100 give d
Fmt2De(sgn, d) == Fmt2Partes(sgn, BToDec(BNorm(d.q)), d.r)

\* f"{valor:.2f}": the decimal with two places nearest to the float, a tie to the
\* even last digit
Fmt2(x) ==
    CASE x.cls = "nan" -> "nan"
      [] x.cls = "inf" -> "inf"
      [] x.cls = "ninf" -> "-inf"
      [] OTHER -> Fmt2De(x.sgn, BDivRec(Centavos(x), 100))

(***************************************************************************)
(* Inputs typed at the prompts.                                            *)
(***************************************************************************)
\* float(input()) raising ValueError
ErroDeValor == [cls |-> "erro", sgn |-> 1, hi |-> 0, lo |-> 0, exp |-> 0]

\* what float(input()) makes of the text typed for the amount of a deposit
ValoresDeposito ==
    { Fin(0 - 10000), Fin(0), Fin(10000), Fin(100000), NaN,
      ErroDeValor }

\* what float(input()) makes of the text typed for the amount of a withdrawal
ValoresSaque ==
    { Fin(0 - 10000), Fin(0), Fin(10000), Fin(50000), Fin(60000), NaN,
      ErroDeValor }

\* what int(input()) makes of the text typed for an account number
NumerosEntrada ==
    { [cls |-> "int", num |-> n] : n \in 1 .. (MaxContas + 1) }
        \cup { [cls |-> "erro", num |-> 0] }

\* A text is the sequence of the Unicode code points of its characters:
\* "1" is <<49>>, "1 " is <<49, 32>>, "\t1" is <<9, 49>>.

\* texts typed for the CPF of the owner of a new account: "1", "1 ", "2"
CpfsEntrada == { <<49>>, <<49, 32>>, <<50>> }

\* texts typed for the CPF of a new person: "1", "\t1"
CpfsCadastro == { <<49>>, <<9, 49>> }

\* the characters that str.strip() removes, those for which str.isspace() holds:
\* U+0009 .. U+000D, U+001C .. U+0020, U+0085, U+00A0, U+1680, U+2000 .. U+200A,
\* U+2028, U+2029, U+202F, U+205F, U+3000
EspacosEmBranco ==
    (9 .. 13) \cup (28 .. 32) \cup {133, 160, 5760} \cup (8192 .. 8202)
        \cup {8232, 8233, 8239, 8287, 12288}

RECURSIVE LStrip(_)
LStrip(s) == IF s # <<>> /\ Head(s) \in EspacosEmBranco THEN LStrip(Tail(s)) ELSE s

RECURSIVE RStrip(_)
RStrip(s) ==
    IF s # <<>> /\ s[Len(s)] \in EspacosEmBranco
    THEN RStrip(SubSeq(s, 1, Len(s) - 1))
    ELSE s

\* str.strip()
Strip(s) == RStrip(LStrip(s))

(***************************************************************************)
(* Historico                                                               *)
(***************************************************************************)
\* registrar inserting the line at the front of the list
registrar_NoInicio(registros, linha) == <<linha>> \o registros

\* Historico.registrar
registrar(registros, linha) == Append(registros, linha)

(***************************************************************************)
(* Transactions                                                            *)
(***************************************************************************)
\* Deposito.descricao
DepositoDescricao(valor) == "Depósito:\tR$ " \o Fmt2(valor)

\* Saque.descricao
SaqueDescricao(valor) == "Saque:\t\tR$ " \o Fmt2(valor)

\* Deposito.executar with the test valor >= 0
DepositoExecutar_AceitaZero(conta, valor) ==
    IF FGe(valor, Zero)
    THEN [conta |-> [conta EXCEPT
                        !.saldo = FAdd(conta.saldo, valor),
                        !.historico = registrar(conta.historico, DepositoDescricao(valor))],
          sucesso |-> TRUE]
    ELSE [conta |-> conta, sucesso |-> FALSE]

\* Deposito.executar: the account afterwards and the value returned
DepositoExecutar(conta, valor) ==
    IF FGt(valor, Zero)
    THEN [conta |-> [conta EXCEPT
                        !.saldo = FAdd(conta.saldo, valor),
                        !.historico = registrar(conta.historico, DepositoDescricao(valor))],
          sucesso |-> TRUE]
    ELSE [conta |-> conta, sucesso |-> FALSE]

\* the effect of a withdrawal without the increment of numero_saques
SaqueEfetuado_SemContar(conta, valor) ==
    [conta EXCEPT
        !.saldo = FSub(conta.saldo, valor),
        !.historico = registrar(conta.historico, SaqueDescricao(valor))]

\* the effect of a withdrawal that passed the checks of Saque.executar
SaqueEfetuado(conta, valor) ==
    [conta EXCEPT
        !.saldo = FSub(conta.saldo, valor),
        !.numero_saques = conta.numero_saques + 1,
        !.historico = registrar(conta.historico, SaqueDescricao(valor))]

\* Saque.executar with the count test numero_saques > limite_saques
SaqueExecutar_ContagemFrouxa(conta, valor) ==
    IF FLe(valor, Zero)
    THEN [conta |-> conta, sucesso |-> FALSE, motivo |-> "valor_invalido"]
    ELSE IF FGt(valor, conta.saldo)
    THEN [conta |-> conta, sucesso |-> FALSE, motivo |-> "saldo_insuficiente"]
    ELSE IF FGt(valor, conta.limite)
    THEN [conta |-> conta, sucesso |-> FALSE, motivo |-> "excede_limite"]
    ELSE IF conta.numero_saques > conta.limite_saques
    THEN [conta |-> conta, sucesso |-> FALSE, motivo |-> "excede_numero_saques"]
    ELSE [conta |-> SaqueEfetuado(conta, valor), sucesso |-> TRUE, motivo |-> "None"]

\* Saque.executar debiting the balance before the count test
SaqueExecutar_DebitoAntecipado(conta, valor) ==
    IF FLe(valor, Zero)
    THEN [conta |-> conta, sucesso |-> FALSE, motivo |-> "valor_invalido"]
    ELSE IF FGt(valor, conta.saldo)
    THEN [conta |-> conta, sucesso |-> FALSE, motivo |-> "saldo_insuficiente"]
    ELSE IF FGt(valor, conta.limite)
    THEN [conta |-> conta, sucesso |-> FALSE, motivo |-> "excede_limite"]
    ELSE IF conta.numero_saques >= conta.limite_saques
    THEN [conta |-> [conta EXCEPT !.saldo = FSub(conta.saldo, valor)],
          sucesso |-> FALSE, motivo |-> "excede_numero_saques"]
    ELSE [conta |-> SaqueEfetuado(conta, valor), sucesso |-> TRUE, motivo |-> "None"]

\* Saque.executar testing the ceiling before the balance
SaqueExecutar_LimiteAntesDoSaldo(conta, valor) ==
    IF FLe(valor, Zero)
    THEN [conta |-> conta, sucesso |-> FALSE, motivo |-> "valor_invalido"]
    ELSE IF FGt(valor, conta.limite)
    THEN [conta |-> conta, sucesso |-> FALSE, motivo |-> "excede_limite"]
    ELSE IF FGt(valor, conta.saldo)
    THEN [conta |-> conta, sucesso |-> FALSE, motivo |-> "saldo_insuficiente"]
    ELSE IF conta.numero_saques >= conta.limite_saques
    THEN [conta |-> conta, sucesso |-> FALSE, motivo |-> "excede_numero_saques"]
    ELSE [conta |-> SaqueEfetuado(conta, valor), sucesso |-> TRUE, motivo |-> "None"]

\* Saque.executar without the call of historico.registrar
SaqueExecutar_SemRegistro(conta, valor) ==
    IF FLe(valor, Zero)
    THEN [conta |-> conta, sucesso |-> FALSE, motivo |-> "valor_invalido"]
    ELSE IF FGt(valor, conta.saldo)
    THEN [conta |-> conta, sucesso |-> FALSE, motivo |-> "saldo_insuficiente"]
    ELSE IF FGt(valor, conta.limite)
    THEN [conta |-> conta, sucesso |-> FALSE, motivo |-> "excede_limite"]
    ELSE IF conta.numero_saques >= conta.limite_saques
    THEN [conta |-> conta, sucesso |-> FALSE, motivo |-> "excede_numero_saques"]
    ELSE [conta |-> [conta EXCEPT
                        !.saldo = FSub(conta.saldo, valor),
                        !.numero_saques = conta.numero_saques + 1],
          sucesso |-> TRUE, motivo |-> "None"]

\* Saque.executar: the account afterwards and the pair returned
SaqueExecutar(conta, valor) ==
    IF FLe(valor, Zero)
    THEN [conta |-> conta, sucesso |-> FALSE, motivo |-> "valor_invalido"]
    ELSE IF FGt(valor, conta.saldo)
    THEN [conta |-> conta, sucesso |-> FALSE, motivo |-> "saldo_insuficiente"]
    ELSE IF FGt(valor, conta.limite)
    THEN [conta |-> conta, sucesso |-> FALSE, motivo |-> "excede_limite"]
    ELSE IF conta.numero_saques >= conta.limite_saques
    THEN [conta |-> conta, sucesso |-> FALSE, motivo |-> "excede_numero_saques"]
    ELSE [conta |-> SaqueEfetuado(conta, valor), sucesso |-> TRUE, motivo |-> "None"]

(***************************************************************************)
(* Conta                                                                   *)
(***************************************************************************)
\* Conta.__init__ with a default limite_saques of 5
NovaContaObj_CincoSaques(agencia, numero_conta, cliente) ==
    [agencia |-> agencia,
     numero_conta |-> numero_conta,
     cliente |-> cliente,
     saldo |-> Zero,
     limite |-> LimitePadrao,
     limite_saques |-> 5,
     numero_saques |-> 0,
     historico |-> <<>>]

\* Conta.__init__ with the defaults saldo=0.0, limite=500.0, limite_saques=3
NovaContaObj(agencia, numero_conta, cliente) ==
    [agencia |-> agencia,
     numero_conta |-> numero_conta,
     cliente |-> cliente,
     saldo |-> Zero,
     limite |-> LimitePadrao,
     limite_saques |-> LimiteSaquesPadrao,
     numero_saques |-> 0,
     historico |-> <<>>]

\* return {"sucesso": sucesso} giving a refused deposit the reason valor_invalido
RetornoDeDeposito_ComMotivo(r) ==
    [conta |-> r.conta,
     resultado |-> IF r.sucesso
                   THEN [sucesso |-> TRUE]
                   ELSE [sucesso |-> FALSE, motivo |-> "valor_invalido"]]

\* return {"sucesso": sucesso}, for r the account and the value that
\* Deposito.executar left
RetornoDeDeposito(r) == [conta |-> r.conta, resultado |-> [sucesso |-> r.sucesso]]

\* return {"sucesso": sucesso, "motivo": motivo}, for r the account and the pair
\* that Saque.executar left
RetornoDeSaque(r) ==
    [conta |-> r.conta, resultado |-> [sucesso |-> r.sucesso, motivo |-> r.motivo]]

\* Conta.executar_transacao giving a refused deposit the reason valor_invalido
executar_transacao_MotivoNoDeposito(conta, tipo, valor) ==
    IF tipo = "Deposito" THEN RetornoDeDeposito_ComMotivo(DepositoExecutar(conta, valor))
    ELSE IF tipo = "Saque" THEN RetornoDeSaque(SaqueExecutar(conta, valor))
    ELSE [conta |-> conta,
          resultado |-> [sucesso |-> FALSE, motivo |-> "transacao_desconhecida"]]

\* Conta.executar_transacao: the account afterwards and the dict returned
executar_transacao(conta, tipo, valor) ==
    IF tipo = "Deposito" THEN RetornoDeDeposito(DepositoExecutar(conta, valor))
    ELSE IF tipo = "Saque" THEN RetornoDeSaque(SaqueExecutar(conta, valor))
    ELSE [conta |-> conta,
          resultado |-> [sucesso |-> FALSE, motivo |-> "transacao_desconhecida"]]

(***************************************************************************)
(* Registry helpers                                                        *)
(***************************************************************************)
\* filtrar_usuario_por_cpf falling back on the first person when none matches
filtrar_usuario_por_cpf_OuPrimeiro(cpf, us) ==
    IF \E i \in 1 .. Len(us) : us[i].cpf = cpf
    THEN CHOOSE i \in 1 .. Len(us) :
            /\ us[i].cpf = cpf
            /\ \A j \in 1 .. (i - 1) : us[j].cpf # cpf
    ELSE IF us # <<>> THEN 1 ELSE 0

\* filtrar_usuario_por_cpf: index of the first person with that cpf, 0 for None
filtrar_usuario_por_cpf(cpf, us) ==
    IF \E i \in 1 .. Len(us) : us[i].cpf = cpf
    THEN CHOOSE i \in 1 .. Len(us) :
            /\ us[i].cpf = cpf
            /\ \A j \in 1 .. (i - 1) : us[j].cpf # cpf
    ELSE 0

\* next((c for c in contas if c.numero_conta == n), None): index, 0 for None
BuscarConta(n, cs) ==
    IF \E i \in 1 .. Len(cs) : cs[i].numero_conta = n
    THEN CHOOSE i \in 1 .. Len(cs) :
            /\ cs[i].numero_conta = n
            /\ \A j \in 1 .. (i - 1) : cs[j].numero_conta # n
    ELSE 0

(***************************************************************************)
(* Bookkeeping of what executar_transacao reported, per position in the   *)
(* accounts list: how many deposits and withdrawals reported success and  *)
(* the sums of their amounts.                                              *)
(***************************************************************************)
AuditoriaNova == [dep_ok |-> 0, saq_ok |-> 0, soma_dep |-> Zero, soma_saq |-> Zero]

Auditar(a, tipo, valor, sucesso) ==
    IF ~sucesso THEN a
    ELSE IF tipo = "Deposito"
    THEN [a EXCEPT !.dep_ok = a.dep_ok + 1, !.soma_dep = FAdd(a.soma_dep, valor)]
    ELSE [a EXCEPT !.saq_ok = a.saq_ok + 1, !.soma_saq = FAdd(a.soma_saq, valor)]

RECURSIVE TotalRegistros(_)
TotalRegistros(cs) ==
    IF cs = <<>> THEN 0 ELSE Len(Head(cs).historico) + TotalRegistros(Tail(cs))

\* persons, accounts and history entries held
Tamanho == Len(usuarios) + Len(contas) + TotalRegistros(contas)

(***************************************************************************)
(* main()                                                                  *)
(***************************************************************************)
SemOperacao ==
    [opcao |-> "", etapa |-> "inicio", idx |-> 0, tipo |-> "", valor |-> Zero,
     cpf |-> <<>>, resultado |-> [sucesso |-> FALSE]]

Init ==
    /\ usuarios = <<>>
    /\ contas = <<>>
    /\ numero_conta_seq = 1
    /\ ultima = SemOperacao
    /\ auditoria = <<>>

\* the prompts of the "d" and "s" branches also turning away an amount that is not > 0
EtapaSelecao_SoPositivo(n, valor) ==
    IF contas = <<>> THEN "sem_contas"
    ELSE IF n.cls = "erro" THEN "numero_invalido"
    ELSE IF BuscarConta(n.num, contas) = 0 THEN "conta_nao_encontrada"
    ELSE IF valor.cls = "erro" \/ ~FGt(valor, Zero) THEN "valor_invalido"
    ELSE ""

\* the part of the "d" and "s" branches before the transaction is built:
\* "" when an account was selected and an amount parsed, else the exit taken
EtapaSelecao(n, valor) ==
    IF contas = <<>> THEN "sem_contas"
    ELSE IF n.cls = "erro" THEN "numero_invalido"
    ELSE IF BuscarConta(n.num, contas) = 0 THEN "conta_nao_encontrada"
    ELSE IF valor.cls = "erro" THEN "valor_invalido"
    ELSE ""

\* an exit of the "d" or "s" branch through continue
Desistir(opcao, etapa) ==
    /\ ultima' = [SemOperacao EXCEPT !.opcao = opcao, !.etapa = etapa]
    /\ UNCHANGED <<usuarios, contas, numero_conta_seq, auditoria>>

\* what the pass through the menu leaves, for r the account and the dict that
\* executar_transacao left, when every Historico holds the same list
Efetivar_HistoricoCompartilhado(opcao, i, tipo, valor, r) ==
    /\ contas' = [j \in 1 .. Len(contas) |->
                    IF j = i THEN r.conta
                    ELSE [contas[j] EXCEPT !.historico = r.conta.historico]]
    /\ auditoria' = [auditoria EXCEPT
                        ![i] = Auditar(auditoria[i], tipo, valor, r.resultado.sucesso)]
    /\ ultima' = [opcao |-> opcao, etapa |-> "aplicada", idx |-> i, tipo |-> tipo,
                  valor |-> valor, cpf |-> <<>>, resultado |-> r.resultado]
    /\ UNCHANGED <<usuarios, numero_conta_seq>>

\* what the pass through the menu leaves, for r the account and the dict that
\* executar_transacao left: the account is the object of the list, so it changes there
Efetivar(opcao, i, tipo, valor, r) ==
    /\ contas' = [contas EXCEPT ![i] = r.conta]
    /\ auditoria' = [auditoria EXCEPT
                        ![i] = Auditar(auditoria[i], tipo, valor, r.resultado.sucesso)]
    /\ ultima' = [opcao |-> opcao, etapa |-> "aplicada", idx |-> i, tipo |-> tipo,
                  valor |-> valor, cpf |-> <<>>, resultado |-> r.resultado]
    /\ UNCHANGED <<usuarios, numero_conta_seq>>

\* the transaction applied to contas[i] when every Historico holds the same list
Aplicar_HistoricoCompartilhado(opcao, i, conta, tipo, valor) ==
    Efetivar_HistoricoCompartilhado(opcao, i, tipo, valor,
                                    executar_transacao(conta, tipo, valor))

\* the transaction built in the "d" or "s" branch applied to contas[i]
Aplicar(opcao, i, conta, tipo, valor) ==
    Efetivar(opcao, i, tipo, valor, executar_transacao(conta, tipo, valor))

\* opcao == "d"
Depositar(n, valor) ==
    LET etapa == EtapaSelecao(n, valor) IN
    IF etapa # "" THEN Desistir("d", etapa)
    ELSE LET i == BuscarConta(n.num, contas)
         IN  Aplicar("d", i, contas[i], "Deposito", valor)

\* the "s" branch starting a new count of withdrawals once the limit is reached
Sacar_ZeraContagem(n, valor) ==
    LET etapa == EtapaSelecao(n, valor) IN
    IF etapa # "" THEN Desistir("s", etapa)
    ELSE LET i == BuscarConta(n.num, contas)
             conta == [contas[i] EXCEPT
                          !.limite_saques = LIMITE_SAQUES,
                          !.numero_saques = IF @ >= LIMITE_SAQUES THEN 0 ELSE @]
         IN  Aplicar("s", i, conta, "Saque", valor)

\* opcao == "s"
Sacar(n, valor) ==
    LET etapa == EtapaSelecao(n, valor) IN
    IF etapa # "" THEN Desistir("s", etapa)
    ELSE LET i == BuscarConta(n.num, contas)
             conta == [contas[i] EXCEPT !.limite_saques = LIMITE_SAQUES]
         IN  Aplicar("s", i, conta, "Saque", valor)

\* criar_usuario looking the CPF up as typed and storing it stripped
criar_usuario_BuscaSemStrip(entrada) ==
    LET cpf == Strip(entrada) IN
    /\ IF filtrar_usuario_por_cpf(entrada, usuarios) # 0
       THEN /\ usuarios' = usuarios
            /\ ultima' = [SemOperacao EXCEPT !.opcao = "nu", !.etapa = "cpf_existente",
                                             !.cpf = cpf]
       ELSE /\ usuarios' = Append(usuarios,
                    [nome |-> "nome", endereco |-> "endereco", cpf |-> cpf,
                     data_nascimento |-> "data"])
            /\ ultima' = [SemOperacao EXCEPT !.opcao = "nu", !.etapa = "criado",
                                             !.cpf = cpf,
                                             !.resultado = [sucesso |-> TRUE]]
    /\ UNCHANGED <<contas, numero_conta_seq, auditoria>>

\* opcao == "nu": criar_usuario
criar_usuario(entrada) ==
    LET cpf == Strip(entrada) IN
    /\ IF filtrar_usuario_por_cpf(cpf, usuarios) # 0
       THEN /\ usuarios' = usuarios
            /\ ultima' = [SemOperacao EXCEPT !.opcao = "nu", !.etapa = "cpf_existente",
                                             !.cpf = cpf]
       ELSE /\ usuarios' = Append(usuarios,
                    [nome |-> "nome", endereco |-> "endereco", cpf |-> cpf,
                     data_nascimento |-> "data"])
            /\ ultima' = [SemOperacao EXCEPT !.opcao = "nu", !.etapa = "criado",
                                             !.cpf = cpf,
                                             !.resultado = [sucesso |-> TRUE]]
    /\ UNCHANGED <<contas, numero_conta_seq, auditoria>>

\* the "nc" branch adding 1 to numero_conta_seq whether or not an account was made
criar_conta_ConsomeNumero(entrada) ==
    LET cpf == Strip(entrada)
        u == filtrar_usuario_por_cpf(cpf, usuarios)
    IN
    /\ IF u # 0
       THEN /\ contas' = Append(contas, NovaContaObj(AGENCIA, numero_conta_seq, usuarios[u]))
            /\ auditoria' = Append(auditoria, AuditoriaNova)
            /\ ultima' = [SemOperacao EXCEPT !.opcao = "nc", !.etapa = "criada",
                                             !.idx = Len(contas) + 1,
                                             !.cpf = cpf,
                                             !.resultado = [sucesso |-> TRUE]]
       ELSE /\ UNCHANGED <<contas, auditoria>>
            /\ ultima' = [SemOperacao EXCEPT !.opcao = "nc",
                                             !.etapa = "usuario_nao_encontrado",
                                             !.cpf = cpf]
    /\ numero_conta_seq' = numero_conta_seq + 1
    /\ UNCHANGED usuarios

\* opcao == "nc": criar_conta and the append in main
criar_conta(entrada) ==
    LET cpf == Strip(entrada)
        u == filtrar_usuario_por_cpf(cpf, usuarios)
    IN
    /\ IF u # 0
       THEN /\ contas' = Append(contas, NovaContaObj(AGENCIA, numero_conta_seq, usuarios[u]))
            /\ numero_conta_seq' = numero_conta_seq + 1
            /\ auditoria' = Append(auditoria, AuditoriaNova)
            /\ ultima' = [SemOperacao EXCEPT !.opcao = "nc", !.etapa = "criada",
                                             !.idx = Len(contas) + 1,
                                             !.cpf = cpf,
                                             !.resultado = [sucesso |-> TRUE]]
       ELSE /\ UNCHANGED <<contas, numero_conta_seq, auditoria>>
            /\ ultima' = [SemOperacao EXCEPT !.opcao = "nc",
                                             !.etapa = "usuario_nao_encontrado",
                                             !.cpf = cpf]
    /\ UNCHANGED usuarios

\* the step stays within the bounds of the model
Dentro == Len(contas') <= MaxContas /\ Tamanho' <= MaxTamanho

Next ==
    \/ \E n \in NumerosEntrada, valor \in ValoresDeposito : Depositar(n, valor) /\ Dentro
    \/ \E n \in NumerosEntrada, valor \in ValoresSaque : Sacar(n, valor) /\ Dentro
    \/ \E entrada \in CpfsCadastro : criar_usuario(entrada) /\ Dentro
    \/ \E entrada \in CpfsEntrada : criar_conta(entrada) /\ Dentro

Spec == Init /\ [][Next]_vars

(***************************************************************************)
(* The bank with two registrable CPFs and a third that is never           *)
(* registered, and few amounts: the registry and several accounts.        *)
(***************************************************************************)
\* "1", "\xa01" (a no-break space first), "2"
CpfsCadastroBanco == { <<49>>, <<160, 49>>, <<50>> }

\* "1", "2\r", "3"
CpfsEntradaBanco == { <<49>>, <<50, 13>>, <<51>> }

\* 0.0, 0.1 and 0.7: the sum of 0.1 and 0.7 is rounded to 0.7999999999999999
ValoresDepositoBanco == { Fin(0), Fin(10), Fin(70) }

\* 0.8 and 600.0
ValoresSaqueBanco == { Fin(80), Fin(60000) }

NextBanco ==
    \/ \E n \in NumerosEntrada, valor \in ValoresDepositoBanco :
            Depositar(n, valor) /\ Dentro
    \/ \E n \in NumerosEntrada, valor \in ValoresSaqueBanco : Sacar(n, valor) /\ Dentro
    \/ \E entrada \in CpfsCadastroBanco : criar_usuario(entrada) /\ Dentro
    \/ \E entrada \in CpfsEntradaBanco : criar_conta(entrada) /\ Dentro

SpecBanco == Init /\ [][NextBanco]_vars

(***************************************************************************)
(* Vocabulary of the properties.                                           *)
(***************************************************************************)
Indices == 1 .. Len(contas)

\* the step applied a transaction of the given kind to the account at index i
PassoAplicado(i, opcao) ==
    /\ ultima'.etapa = "aplicada"
    /\ ultima'.opcao = opcao
    /\ ultima'.idx = i
    /\ i \in Indices

\* the last operation applied a transaction of the given kind
UltimaAplicada(opcao) == ultima.etapa = "aplicada" /\ ultima.opcao = opcao

IsPrefix(s, t) == Len(s) <= Len(t) /\ SubSeq(t, 1, Len(s)) = s

(***************************************************************************)
(* C1: the balance of every account is >= 0 in every reachable state.     *)
(* Saque(nan) passes every check of Saque.executar, because each ordered  *)
(* comparison with NaN is False, and leaves saldo = nan.                   *)
(***************************************************************************)
C1_SaldoNaoNegativo == \A i \in Indices : FGe(contas[i].saldo, Zero)

(***************************************************************************)
(* C2: numero_saques <= limite_saques in every reachable state of every   *)
(* account, and a step that changes numero_saques adds exactly 1 to it    *)
(* from a value that is below the limit the check compares with.          *)
(***************************************************************************)
C2_Invariante == \A i \in Indices : contas[i].numero_saques <= contas[i].limite_saques

C2_Passo ==
    \A i \in Indices :
        contas'[i].numero_saques # contas[i].numero_saques =>
            /\ contas[i].numero_saques < LIMITE_SAQUES
            /\ contas'[i].numero_saques = contas[i].numero_saques + 1
            /\ contas'[i].limite_saques = LIMITE_SAQUES

C2_NumeroSaquesLimitado == [](C2_Invariante) /\ [][C2_Passo]_vars

C2_Witness ==
    \E i \in Indices :
        /\ contas[i].numero_saques = contas[i].limite_saques
        /\ auditoria[i].saq_ok = LIMITE_SAQUES
        /\ UltimaAplicada("s")
        /\ ultima.idx = i
        /\ ultima.resultado.sucesso

(***************************************************************************)
(* C3: when the withdrawal count of an account equals its maximum, a      *)
(* Saque of an amount a with 0 < a <= saldo and a <= limite is rejected   *)
(* with excede_numero_saques and the balance is unchanged.                 *)
(***************************************************************************)
C3_Passo ==
    \A i \in Indices :
        ( /\ PassoAplicado(i, "s")
          /\ contas[i].numero_saques = contas[i].limite_saques
          /\ FGt(ultima'.valor, Zero)
          /\ FLe(ultima'.valor, contas[i].saldo)
          /\ FLe(ultima'.valor, contas[i].limite) )
        => /\ ultima'.resultado = [sucesso |-> FALSE, motivo |-> "excede_numero_saques"]
           /\ contas'[i].saldo = contas[i].saldo

C3_SaqueAlemDoNumero == [][C3_Passo]_vars

\* the fourth withdrawal of R$ 100.00 after three of R$ 100.00 from R$ 1000.00
C3_Witness ==
    \E i \in Indices :
        /\ UltimaAplicada("s")
        /\ ultima.idx = i
        /\ ultima.valor = Fin(10000)
        /\ ultima.resultado = [sucesso |-> FALSE, motivo |-> "excede_numero_saques"]
        /\ contas[i].numero_saques = 3
        /\ contas[i].limite_saques = 3
        /\ contas[i].saldo = Fin(70000)
        /\ auditoria[i].saq_ok = 3

(***************************************************************************)
(* C4: for every amount a <= 0, Deposito(a) and Saque(a) report failure   *)
(* and leave the balance and the history of the account unchanged.        *)
(***************************************************************************)
C4_Passo ==
    \A i \in Indices :
        ( /\ PassoAplicado(i, "d") \/ PassoAplicado(i, "s")
          /\ FLe(ultima'.valor, Zero) )
        => /\ ~ultima'.resultado.sucesso
           /\ contas'[i].saldo = contas[i].saldo
           /\ contas'[i].historico = contas[i].historico

C4_ValorNaoPositivo == [][C4_Passo]_vars

\* a deposit of 0.00 refused on an account that already has movements
C4_Witness ==
    \E i \in Indices :
        /\ UltimaAplicada("d")
        /\ ultima.idx = i
        /\ ultima.valor = Zero
        /\ ~ultima.resultado.sucesso
        /\ contas[i].historico # <<>>
        /\ FGt(contas[i].saldo, Zero)

(***************************************************************************)
(* C5: for every amount a > 0, Deposito(a) succeeds, increases the        *)
(* balance by exactly a, appends the deposit description at the end of    *)
(* the history, and leaves numero_saques, limite and limite_saques        *)
(* unchanged.  On an account whose saldo is nan the sum is nan again,     *)
(* which equals nothing.                                                   *)
(***************************************************************************)
C5_Passo ==
    \A i \in Indices :
        ( PassoAplicado(i, "d") /\ FGt(ultima'.valor, Zero) )
        => /\ ultima'.resultado.sucesso
           /\ FEq(contas'[i].saldo, FAdd(contas[i].saldo, ultima'.valor))
           /\ contas'[i].historico =
                  Append(contas[i].historico, DepositoDescricao(ultima'.valor))
           /\ contas'[i].numero_saques = contas[i].numero_saques
           /\ contas'[i].limite = contas[i].limite
           /\ contas'[i].limite_saques = contas[i].limite_saques

C5_DepositoPositivo == [][C5_Passo]_vars

(***************************************************************************)
(* C6: Saque(a) succeeds exactly when 0 < a, a <= saldo, a <= limite and  *)
(* numero_saques < limite_saques; on success the balance decreases by     *)
(* exactly a, numero_saques increases by 1 and the withdraw description   *)
(* is appended to the history.                                             *)
(***************************************************************************)
C6_Passo ==
    \A i \in Indices :
        PassoAplicado(i, "s") =>
            LET a == ultima'.valor
                c == contas[i]
            IN  /\ ultima'.resultado.sucesso <=>
                      ( /\ FLt(Zero, a)
                        /\ FLe(a, c.saldo)
                        /\ FLe(a, c.limite)
                        /\ c.numero_saques < c.limite_saques )
                /\ ultima'.resultado.sucesso =>
                      /\ FEq(contas'[i].saldo, FSub(c.saldo, a))
                      /\ contas'[i].numero_saques = c.numero_saques + 1
                      /\ contas'[i].historico = Append(c.historico, SaqueDescricao(a))

C6_SaqueValido == [][C6_Passo]_vars

(***************************************************************************)
(* C7: a failing Saque reports the reason of the first failing check in   *)
(* the order valor <= 0, valor > saldo, valor > limite, numero_saques >=  *)
(* limite_saques.                                                          *)
(***************************************************************************)
C7_Passo ==
    \A i \in Indices :
        ( PassoAplicado(i, "s") /\ ~ultima'.resultado.sucesso ) =>
            LET a == ultima'.valor
                c == contas[i]
            IN  IF FLe(a, Zero) THEN ultima'.resultado.motivo = "valor_invalido"
                ELSE IF FGt(a, c.saldo) THEN ultima'.resultado.motivo = "saldo_insuficiente"
                ELSE IF FGt(a, c.limite) THEN ultima'.resultado.motivo = "excede_limite"
                ELSE /\ c.numero_saques >= c.limite_saques
                     /\ ultima'.resultado.motivo = "excede_numero_saques"

C7_OrdemDasVerificacoes == [][C7_Passo]_vars

\* R$ 600.00 asked of an account holding R$ 700.00 whose three withdrawals are used
C7_Witness ==
    \E i \in Indices :
        /\ UltimaAplicada("s")
        /\ ultima.idx = i
        /\ ultima.valor = Fin(60000)
        /\ ultima.resultado = [sucesso |-> FALSE, motivo |-> "excede_limite"]
        /\ contas[i].saldo = Fin(70000)
        /\ contas[i].numero_saques = contas[i].limite_saques

(***************************************************************************)
(* C8: the length of the history of an account equals the number of       *)
(* transactions applied to it that reported success, and a transaction    *)
(* that reports failure adds no entry.                                     *)
(***************************************************************************)
C8_Invariante ==
    \A i \in Indices :
        Len(contas[i].historico) = auditoria[i].dep_ok + auditoria[i].saq_ok

C8_Passo ==
    \A i \in Indices :
        ( /\ PassoAplicado(i, "d") \/ PassoAplicado(i, "s")
          /\ ~ultima'.resultado.sucesso )
        => Len(contas'[i].historico) = Len(contas[i].historico)

C8_HistoricoContaSucessos == [](C8_Invariante) /\ [][C8_Passo]_vars

\* two successes and then a refused withdrawal on the same account
C8_Witness ==
    \E i \in Indices :
        /\ auditoria[i].dep_ok = 1
        /\ auditoria[i].saq_ok = 1
        /\ Len(contas[i].historico) = 2
        /\ UltimaAplicada("s")
        /\ ultima.idx = i
        /\ ~ultima.resultado.sucesso

(***************************************************************************)
(* C9: an operation of the "d" or "s" branch that does not succeed leaves *)
(* every account as it was: saldo, numero_saques, historico, limite and   *)
(* limite_saques, also through the assignment of limite_saques in main.   *)
(***************************************************************************)
C9_Passo ==
    ( /\ ultima'.opcao \in {"d", "s"}
      /\ ~ultima'.resultado.sucesso )
    => contas' = contas

C9_FalhaNaoAltera == [][C9_Passo]_vars

\* a withdrawal refused for its amount on an account that has withdrawn before
C9_Witness ==
    \E i \in Indices :
        /\ UltimaAplicada("s")
        /\ ultima.idx = i
        /\ ultima.resultado = [sucesso |-> FALSE, motivo |-> "saldo_insuficiente"]
        /\ contas[i].numero_saques > 0
        /\ contas[i].limite_saques = LimiteSaquesPadrao

(***************************************************************************)
(* C10: the history of an account is append-only: across any step the     *)
(* history before is a prefix of the history after, and a successful      *)
(* transaction puts its description last.                                  *)
(***************************************************************************)
C10_Passo ==
    /\ Len(contas') >= Len(contas)
    /\ \A i \in Indices :
        /\ IsPrefix(contas[i].historico, contas'[i].historico)
        /\ ( PassoAplicado(i, "d") /\ ultima'.resultado.sucesso ) =>
              contas'[i].historico =
                  Append(contas[i].historico, DepositoDescricao(ultima'.valor))
        /\ ( PassoAplicado(i, "s") /\ ultima'.resultado.sucesso ) =>
              contas'[i].historico =
                  Append(contas[i].historico, SaqueDescricao(ultima'.valor))

C10_HistoricoSoCresce == [][C10_Passo]_vars

\* a deposit of R$ 1000.00 followed by a withdrawal of R$ 100.00
C10_Witness ==
    \E i \in Indices :
        /\ contas[i].historico = <<"Depósito:\tR$ 1000.00", "Saque:\t\tR$ 100.00">>
        /\ UltimaAplicada("s")
        /\ ultima.idx = i
        /\ ultima.resultado.sucesso

(***************************************************************************)
(* C11: no two registered persons have the same cpf; a registration whose *)
(* cpf is already on file is refused and leaves the list of persons as it *)
(* was, and a registration with a new cpf appends exactly one person.     *)
(***************************************************************************)
Cadastrado(cpf) == \E k \in 1 .. Len(usuarios) : usuarios[k].cpf = cpf

C11_Invariante ==
    \A i, j \in 1 .. Len(usuarios) : i # j => usuarios[i].cpf # usuarios[j].cpf

C11_Passo ==
    ultima'.opcao = "nu" =>
        IF Cadastrado(ultima'.cpf)
        THEN /\ ultima'.etapa = "cpf_existente"
             /\ usuarios' = usuarios
        ELSE /\ ultima'.etapa = "criado"
             /\ Len(usuarios') = Len(usuarios) + 1
             /\ SubSeq(usuarios', 1, Len(usuarios)) = usuarios
             /\ usuarios'[Len(usuarios')].cpf = ultima'.cpf

C11_CpfUnico == [](C11_Invariante) /\ [][C11_Passo]_vars

\* two persons on file and a third registration refused for its cpf
C11_Witness ==
    /\ Len(usuarios) = 2
    /\ usuarios[1].cpf # usuarios[2].cpf
    /\ ultima.opcao = "nu"
    /\ ultima.etapa = "cpf_existente"
    /\ Cadastrado(ultima.cpf)

(***************************************************************************)
(* C12: opening an account for a cpf that is not registered fails and     *)
(* leaves the list of accounts and the next account number unchanged, so  *)
(* every account in the list is owned by a person of the registry.        *)
(***************************************************************************)
C12_Invariante ==
    \A i \in Indices : \E k \in 1 .. Len(usuarios) : usuarios[k] = contas[i].cliente

C12_Passo ==
    ( ultima'.opcao = "nc" /\ ~Cadastrado(ultima'.cpf) )
    => /\ ultima'.etapa = "usuario_nao_encontrado"
       /\ ~ultima'.resultado.sucesso
       /\ contas' = contas
       /\ numero_conta_seq' = numero_conta_seq

C12_ContaSoDeCadastrado == [](C12_Invariante) /\ [][C12_Passo]_vars

\* an account asked for a cpf that nobody registered, with persons and an account on file
C12_Witness ==
    /\ ultima.opcao = "nc"
    /\ ultima.etapa = "usuario_nao_encontrado"
    /\ ~Cadastrado(ultima.cpf)
    /\ usuarios # <<>>
    /\ contas # <<>>

(***************************************************************************)
(* C13: the accounts of the list carry the numbers 1, 2, ..., n in the    *)
(* order of creation, pairwise distinct and strictly increasing, a failed *)
(* attempt consumes no number, and a lookup by number selects at most one *)
(* account.                                                                *)
(***************************************************************************)
C13_NumerosDeConta ==
    /\ \A i \in Indices : contas[i].numero_conta = i
    /\ numero_conta_seq = Len(contas) + 1
    /\ \A i, j \in Indices : i < j => contas[i].numero_conta < contas[j].numero_conta
    /\ \A n \in 0 .. (MaxContas + 1) :
          Cardinality({ i \in Indices : contas[i].numero_conta = n }) <= 1

\* two accounts on file and a later attempt that failed
C13_Witness ==
    /\ Len(contas) = 2
    /\ contas[1].numero_conta # contas[2].numero_conta
    /\ ultima.opcao = "nc"
    /\ ultima.etapa = "usuario_nao_encontrado"

(***************************************************************************)
(* C14: the dict returned by executar_transacao carries a reason only for *)
(* a Saque that failed: for a Deposito the key motivo is absent, for a    *)
(* successful Saque it is None, and for a failed Saque it is one of the   *)
(* four reasons of Saque.executar.                                         *)
(***************************************************************************)
MotivosDeSaque ==
    { "valor_invalido", "saldo_insuficiente", "excede_limite", "excede_numero_saques" }

C14_MotivoSoEmSaqueFalho ==
    ultima.etapa = "aplicada" =>
        /\ ultima.opcao = "d" => DOMAIN ultima.resultado = {"sucesso"}
        /\ ultima.opcao = "s" =>
              /\ DOMAIN ultima.resultado = {"sucesso", "motivo"}
              /\ ultima.resultado.sucesso => ultima.resultado.motivo = "None"
              /\ ~ultima.resultado.sucesso => ultima.resultado.motivo \in MotivosDeSaque

\* a deposit of a negative amount refused without a reason
C14_Witness ==
    /\ UltimaAplicada("d")
    /\ ultima.valor = Fin(0 - 10000)
    /\ ~ultima.resultado.sucesso
    /\ "motivo" \notin DOMAIN ultima.resultado

(***************************************************************************)
(* C15: the console loop accepts an amount only if it is > 0: no Deposito *)
(* or Saque is built and applied with an amount <= 0.                      *)
(***************************************************************************)
C15_SoPositivoChegaAoNucleo ==
    ~( ultima.etapa = "aplicada" /\ FLe(ultima.valor, Zero) )

(***************************************************************************)
(* C15, amended: once an account is selected, the console loop turns away *)
(* only the text that float() cannot convert; every amount that parses,   *)
(* also one <= 0, is applied to the account as a Deposito or a Saque, and *)
(* for an amount <= 0 the transaction reports failure and leaves the      *)
(* accounts unchanged.                                                     *)
(***************************************************************************)
ContaSelecionada(n) ==
    /\ contas # <<>>
    /\ n.cls = "int"
    /\ BuscarConta(n.num, contas) # 0

\* with an account selected, the prompts stop exactly the amounts that did not parse
C15_Triagem ==
    \A n \in NumerosEntrada, valor \in ValoresDeposito \cup ValoresSaque :
        ContaSelecionada(n) =>
            EtapaSelecao(n, valor) = IF valor.cls = "erro" THEN "valor_invalido" ELSE ""

\* an amount <= 0 that was applied was refused and changed no account
C15_Passo ==
    ( /\ ultima'.opcao \in {"d", "s"}
      /\ ultima'.etapa = "aplicada"
      /\ FLe(ultima'.valor, Zero) )
    => /\ ultima'.tipo = IF ultima'.opcao = "d" THEN "Deposito" ELSE "Saque"
       /\ ~ultima'.resultado.sucesso
       /\ contas' = contas

C15_SoTextoInvalidoBarrado == [](C15_Triagem) /\ [][C15_Passo]_vars

\* a deposit of 0.00 built, applied and refused by Deposito.executar
C15_Witness ==
    /\ UltimaAplicada("d")
    /\ ultima.tipo = "Deposito"
    /\ ultima.valor = Zero
    /\ ultima.resultado = [sucesso |-> FALSE]

(***************************************************************************)
(* C16: numero_saques never decreases; once it has reached limite_saques  *)
(* it stays there, every later Saque on the account fails, and the        *)
(* balance of the account never decreases again.                           *)
(***************************************************************************)
C16_Passo ==
    \A i \in Indices :
        /\ contas'[i].numero_saques >= contas[i].numero_saques
        /\ contas[i].numero_saques = contas[i].limite_saques =>
              /\ contas'[i].numero_saques = contas'[i].limite_saques
              /\ PassoAplicado(i, "s") => ~ultima'.resultado.sucesso
              /\ ~FLt(contas'[i].saldo, contas[i].saldo)

C16_SemReinicioDaContagem == [][C16_Passo]_vars

\* R$ 500.00 asked of an account holding R$ 700.00 after its third withdrawal
C16_Witness ==
    \E i \in Indices :
        /\ contas[i].numero_saques = contas[i].limite_saques
        /\ contas[i].saldo = Fin(70000)
        /\ UltimaAplicada("s")
        /\ ultima.idx = i
        /\ ultima.valor = Fin(50000)
        /\ ~ultima.resultado.sucesso

(***************************************************************************)
(* C17: the balance of every account equals the sum of the amounts of its *)
(* successful deposits minus the sum of the amounts of its successful     *)
(* withdrawals.  A Saque(nan) is successful and leaves a balance that     *)
(* equals nothing.                                                         *)
(***************************************************************************)
C17_Conservacao ==
    \A i \in Indices :
        FEq(contas[i].saldo, FSub(auditoria[i].soma_dep, auditoria[i].soma_saq))

(***************************************************************************)
(* C18: numero_saques equals the number of withdrawals that reported      *)
(* success, which equals the number of withdraw entries of the history;   *)
(* the other entries are the deposits that reported success.              *)
(***************************************************************************)
\* the lines that Saque.descricao can make of the amounts typed
LinhasDeSaque ==
    { SaqueDescricao(v) : v \in { w \in ValoresSaque \cup ValoresSaqueBanco : w.cls # "erro" } }

\* the lines that Deposito.descricao can make of the amounts typed
LinhasDeDeposito ==
    { DepositoDescricao(v) :
        v \in { w \in ValoresDeposito \cup ValoresDepositoBanco : w.cls # "erro" } }

EhSaque(linha) == linha \in LinhasDeSaque

EhDeposito(linha) == linha \in LinhasDeDeposito

C18_ContagemEHistorico ==
    \A i \in Indices :
        LET h == contas[i].historico
            saques == { k \in 1 .. Len(h) : EhSaque(h[k]) }
            depositos == { k \in 1 .. Len(h) : EhDeposito(h[k]) }
        IN  /\ contas[i].numero_saques = auditoria[i].saq_ok
            /\ Cardinality(saques) = auditoria[i].saq_ok
            /\ Cardinality(depositos) = auditoria[i].dep_ok
            /\ saques \cap depositos = {}
            /\ saques \cup depositos = 1 .. Len(h)

\* one deposit and two withdrawals on the same account
C18_Witness ==
    \E i \in Indices :
        /\ contas[i].numero_saques = 2
        /\ auditoria[i].saq_ok = 2
        /\ auditoria[i].dep_ok = 1
        /\ Len(contas[i].historico) = 3
        /\ EhDeposito(contas[i].historico[1])
        /\ EhSaque(contas[i].historico[3])

\* 1500.00, three withdrawals of 500.00
TetoDeSaques == Fin(50000 * LimiteSaquesPadrao)

(***************************************************************************)
(* C19: for an account opened through main (limite 500.00, three          *)
(* withdrawals) the total ever withdrawn is at most 1500.00 and each      *)
(* successful withdrawal is at most 500.00.  A Saque(nan) is successful   *)
(* and nan is at most nothing.                                             *)
(***************************************************************************)
C19_TotalSacadoLimitado ==
    /\ \A i \in Indices :
          FLe(auditoria[i].soma_saq, TetoDeSaques)
    /\ ( UltimaAplicada("s") /\ ultima.resultado.sucesso ) =>
          FLe(ultima.valor, LimitePadrao)

(***************************************************************************)
(* C20: a Deposito or Saque applied to one account, successful or not,    *)
(* leaves every other account as it was, also an account of the same      *)
(* owner, and leaves the registry of persons and the list of accounts     *)
(* (which accounts, in which order, whose, under which number) unchanged. *)
(***************************************************************************)
C20_Passo ==
    \A i \in Indices :
        ( PassoAplicado(i, "d") \/ PassoAplicado(i, "s") )
        => /\ \A j \in Indices \ {i} : contas'[j] = contas[j]
           /\ Len(contas') = Len(contas)
           /\ contas'[i].numero_conta = contas[i].numero_conta
           /\ contas'[i].agencia = contas[i].agencia
           /\ contas'[i].cliente = contas[i].cliente
           /\ usuarios' = usuarios
           /\ numero_conta_seq' = numero_conta_seq

C20_ContasIsoladas == [][C20_Passo]_vars

\* two accounts of one owner, each with its own movement, the second just credited
C20_Witness ==
    /\ Len(contas) = 2
    /\ contas[1].cliente = contas[2].cliente
    /\ contas[1].historico # <<>>
    /\ contas[2].historico # <<>>
    /\ contas[1].saldo # contas[2].saldo
    /\ UltimaAplicada("d")
    /\ ultima.idx = 2
    /\ ultima.resultado.sucesso

====
